---- MODULE Spec2Model ----
(***************************************************************************)
(* RK4 integration of the time-dependent Schrodinger equation on float     *)
(* textures (src/schrodinger.js).  The file holds two programs:            *)
(*   "interactive"  lines 1-642    mouse-driven, looping, potential kept   *)
(*                                 in potentialBuffer;                     *)
(*   "static"       lines 643-1151 no input, stops at animationTickLimit,  *)
(*                                 potential recomputed inside each shader.*)
(* The variable `variant' says which of the two is running.                *)
(*                                                                         *)
(* Numbers.  Texel amplitudes are floats in the source.  Here they are     *)
(* residues modulo the prime P: 0.5, 0.25 and 1/6 are the inverses of 2, 4 *)
(* and 6, and every sum and product of a shader is computed as written.    *)
(* Coordinates (gl_FragCoord / u_resolution, cursor positions) are exact   *)
(* rationals <<numerator, denominator>>.  exp, cos and sin of the initial  *)
(* wave packet are replaced by small tables (Envelope, PlaneWave).         *)
(***************************************************************************)
EXTENDS Integers, Sequences, FiniteSets, TLC

VARIABLES
  variant,                \* "interactive" or "static"
  dt,                     \* time step size (a residue mod P)
  fbo,                    \* the framebuffers, by name
  pc,                     \* -1 script not run, 0 between frames, n >= 1 inside a frame
  elapsedTime,            \* interactive: frames since the last mouse press
  tick,                   \* static: regl's frame counter
  cancelled,              \* static: frameLoop.cancel() was called
  MOUSE_DOWN,
  wave_position,
  wave_angle,
  wave_angle_components,
  topCanvas,              \* the 2d overlay: "clear" or the dashed line drawn
  frame_display,          \* innerHTML of the frame counter
  screen,                 \* what the last draw_frame / regl.clear left on glCanvas
  passes,                 \* history: the passes run so far in the current frame
  builds,                 \* history: how often two_slit_potential has run
  reset,                  \* history: "pressed" from a mousedown to the next frame,
                          \* "due" during that frame, "none" otherwise
  fragment                \* one fragment of a potential shader, on a canvas of
                          \* its own size: see Shade

vars == <<variant, dt, fbo, pc, elapsedTime, tick, cancelled, MOUSE_DOWN,
          wave_position, wave_angle, wave_angle_components, topCanvas,
          frame_display, screen, passes, builds, reset, fragment>>

(***************************************************************************)
(* Bounds of the model                                                     *)
(***************************************************************************)
Width == 4                \* glCanvas.width, in texels
Height == 4               \* glCanvas.height, in texels
animationTimeLimit == 3   \* interactive: frames per loop (2000 in the source, line 498)
animationTickLimit == 4   \* static: last tick (2000 in the source, line 1121)
MaxAmp == 1               \* largest component of a drawn input field
MaxTicks == 2             \* frames stepped from a drawn input field
MinSide == 16             \* smallest canvas side a potential shader is drawn on
MaxSide == 64             \* largest canvas side a potential shader is drawn on
MaxFrames == 5            \* frames run with the limit disabled

(***************************************************************************)
(* Residue arithmetic for amplitudes                                       *)
(***************************************************************************)
P == 46337

Add(a, b) == (a + b) % P
Mul(a, b) == (a * b) % P
Neg(a) == (P - a) % P
Half == (P + 1) \div 2            \* 0.5
Quarter == Mul(Half, Half)        \* 0.25
Sixth == Mul(Half, (P + 1) \div 3) \* 1/6.

\* vec2 arithmetic of GLSL
vec2(x, y) == <<x, y>>
VAdd(a, b) == <<Add(a[1], b[1]), Add(a[2], b[2])>>
VNeg(a) == <<Neg(a[1]), Neg(a[2])>>
VSub(a, b) == VAdd(a, VNeg(b))
VScale(s, a) == <<Mul(s, a[1]), Mul(s, a[2])>>
Zero2 == <<0, 0>>

(***************************************************************************)
(* Exact rationals for coordinates                                         *)
(***************************************************************************)
RLt(a, b) == a[1] * b[2] < b[1] * a[2]
RGt(a, b) == RLt(b, a)
RAdd(a, b) == <<a[1] * b[2] + b[1] * a[2], a[2] * b[2]>>
RSub(a, b) == <<a[1] * b[2] - b[1] * a[2], a[2] * b[2]>>
RMul(a, b) == <<a[1] * b[1], a[2] * b[2]>>
RScale(n, a) == <<n * a[1], a[2]>>
float(b) == IF b THEN 1 ELSE 0

(***************************************************************************)
(* Textures                                                                *)
(***************************************************************************)
Cells == (0 .. Width - 1) \X (0 .. Height - 1)

\* gl_FragCoord.xy / u_resolution: the centre of texel c
st(c) == [x |-> <<2 * c[1] + 1, 2 * Width>>, y |-> <<2 * c[2] + 1, 2 * Height>>]

\* dx = 1.0 / (glCanvas.width / 2): as a coordinate, and in texels
dx == <<2, Width>>
dxTexels == 2

Clamp(n, size) == IF n < 0 THEN 0 ELSE IF n > size - 1 THEN size - 1 ELSE n

\* texture2D on a regl.texture with the default nearest filter and clamp wrap,
\* sampled at a texel centre displaced by whole texels
texture2D(tex, c) == tex[<<Clamp(c[1], Width), Clamp(c[2], Height)>>]

Blank == [c \in Cells |-> Zero2]

makeFrameBuffer == Blank

BufferNames == {"initialBuffer", "k1Buffer", "k2Buffer", "k3Buffer", "k4Buffer",
                "kCombined", "potentialBuffer"}

(***************************************************************************)
(* Potentials                                                              *)
(***************************************************************************)
\* a float as the amplitude it is in a texture; the potentials only have
\* denominators 1, 2 and 4
amplitude(r) ==
  LET n == r[1] % P
  IN  CASE r[2] = 1 -> n
        [] r[2] = 2 -> Mul(n, Half)
        [] r[2] = 4 -> Mul(n, Quarter)

rfloat(b) == <<float(b), 1>>

\* mutant: the band reaches dx/2 to either side of mid-height
potential_two_slit_at_thin(p, dx_) ==
  RAdd(rfloat(RGt(p.y, RSub(<<1, 1>>, RScale(2, dx_))) \/ RLt(p.y, RScale(2, dx_))
              \/ RGt(p.x, RSub(<<1, 1>>, RScale(2, dx_))) \/ RLt(p.x, RScale(2, dx_))),
       RMul(RMul(RMul(<<3, 1>>,
                      rfloat(RLt(p.y, RAdd(<<1, 2>>, RMul(<<1, 2>>, dx_)))
                             /\ RGt(p.y, RSub(<<1, 2>>, RMul(<<1, 2>>, dx_))))),
                 rfloat(RLt(p.x, <<4, 10>>) \/ RGt(p.x, <<45, 100>>))),
            rfloat(RLt(p.x, <<55, 100>>) \/ RGt(p.x, <<6, 10>>))))

\* mutant: the wall margin is dx instead of 2*dx
potential_two_slit_at_narrow_wall(p, dx_) ==
  RAdd(rfloat(RGt(p.y, RSub(<<1, 1>>, dx_)) \/ RLt(p.y, dx_)
              \/ RGt(p.x, RSub(<<1, 1>>, dx_)) \/ RLt(p.x, dx_)),
       RMul(RMul(RMul(<<3, 1>>,
                      rfloat(RLt(p.y, RAdd(<<1, 2>>, dx_)) /\ RGt(p.y, RSub(<<1, 2>>, dx_)))),
                 rfloat(RLt(p.x, <<4, 10>>) \/ RGt(p.x, <<45, 100>>))),
            rfloat(RLt(p.x, <<55, 100>>) \/ RGt(p.x, <<6, 10>>))))

\* interactive, lines 135-139: square well of margin 2*dx plus the two-slit
\* band, for a space step dx_
potential_two_slit_at(p, dx_) ==
  RAdd(rfloat(RGt(p.y, RSub(<<1, 1>>, RScale(2, dx_))) \/ RLt(p.y, RScale(2, dx_))
              \/ RGt(p.x, RSub(<<1, 1>>, RScale(2, dx_))) \/ RLt(p.x, RScale(2, dx_))),
       RMul(RMul(RMul(<<3, 1>>,
                      rfloat(RLt(p.y, RAdd(<<1, 2>>, dx_)) /\ RGt(p.y, RSub(<<1, 2>>, dx_)))),
                 rfloat(RLt(p.x, <<4, 10>>) \/ RGt(p.x, <<45, 100>>))),
            rfloat(RLt(p.x, <<55, 100>>) \/ RGt(p.x, <<6, 10>>))))

potential_two_slit(p) == amplitude(potential_two_slit_at(p, dx))

\* two_slit_potential's main: gl_FragColor = vec4(vec3(potential(st)), 1.0)
two_slit_potential_out ==
  [c \in Cells |-> vec2(potential_two_slit(st(c)), potential_two_slit(st(c)))]

\* static: the potential each shader defines for itself; `barrier' is the
\* factor in front of the band
square_well_two_slit_at(p, barrier, dx_) ==
  RAdd(rfloat(RGt(p.y, <<99, 100>>) \/ RLt(p.y, <<1, 100>>)
              \/ RGt(p.x, <<99, 100>>) \/ RLt(p.x, <<1, 100>>)),
       RMul(RMul(RMul(barrier,
                      rfloat(RLt(p.y, RAdd(<<1, 2>>, dx_)) /\ RGt(p.y, RSub(<<1, 2>>, dx_)))),
                 rfloat(RLt(p.x, <<4, 10>>) \/ RGt(p.x, <<45, 100>>))),
            rfloat(RLt(p.x, <<55, 100>>) \/ RGt(p.x, <<6, 10>>))))

\* the barrier factor of each static shader
barrier_of(shader) ==
  CASE shader = "k3" -> <<5, 2>>                \* line 923: 2.5
    [] shader = "draw_frame" -> <<1, 1>>        \* line 1099
    [] OTHER -> <<3, 1>>                        \* lines 789, 858, 988

square_well_two_slit(p, barrier) ==
  amplitude(square_well_two_slit_at(p, <<barrier, 1>>, dx))

potential_k1(p) == square_well_two_slit(p, 3)                 \* lines 787-791
potential_k2(p) == square_well_two_slit(p, 3)                 \* lines 856-860
potential_k3(p) == amplitude(square_well_two_slit_at(p, barrier_of("k3"), dx))  \* lines 921-925: 2.5
potential_k4(p) == square_well_two_slit(p, 3)                 \* lines 986-990
potential_draw_frame(p) == square_well_two_slit(p, 1)         \* lines 1097-1101

\* the sampler uniforms bound to each command, by the name the shader gives
\* them, and the framebuffer each one names.  Interactive: wave_texture and
\* potential_texture come from setupDefault (lines 81-82).  Static: every
\* command binds its own, and wave_texture is called `texture' there.
uniforms(pass) ==
  LET pot == IF variant = "interactive"
             THEN [potential_texture |-> "potentialBuffer"] ELSE <<>>
      wave == [wave_texture |-> "initialBuffer"]
  IN  CASE pass = "create_texture" -> [k_combined_texture |-> "kCombined"]
        [] pass = "k1" -> wave @@ pot
        [] pass = "k2" -> wave @@ [k1_texture |-> "k1Buffer"] @@ pot
        [] pass = "k3" -> wave @@ [k2_texture |-> "k2Buffer"] @@ pot
        [] pass = "k4" -> wave @@ [k3_texture |-> "k3Buffer"] @@ pot
        [] pass = "combine_k" ->
             wave @@ [k1_texture |-> "k1Buffer", k2_texture |-> "k2Buffer",
                      k3_texture |-> "k3Buffer", k4_texture |-> "k4Buffer"]
        [] pass = "draw_frame" -> [k_combined_texture |-> "kCombined"] @@ pot

\* the textures a command can sample: what its uniforms name, as they are now
samplers(pass) == [s \in DOMAIN uniforms(pass) |-> fbo[uniforms(pass)[s]]]

\* the potential stage n samples at texel c
potential(n, u, c) ==
  IF variant = "interactive" THEN texture2D(u.potential_texture, c)[1]
  ELSE CASE n = 1 -> potential_k1(st(c))
         [] n = 2 -> potential_k2(st(c))
         [] n = 3 -> potential_k3(st(c))
         [] n = 4 -> potential_k4(st(c))

(***************************************************************************)
(* Initial wave packet                                                     *)
(***************************************************************************)
\* stands for exp(-x), x = <<numerator, denominator>> >= 0
Envelope(x) == IF RLt(x, <<1, 1>>) THEN 2 ELSE IF RLt(x, <<8, 1>>) THEN 1 ELSE 0

\* stands for vec2(cos(k * s), sin(k * s)), s = <<numerator, denominator>>
\* divided by sqrt(norm2): a point of the unit circle
PlaneWave(s, norm2) ==
  LET q == (s[1] + norm2) % 4
  IN  CASE q = 0 -> vec2(1, 0)
        [] q = 1 -> vec2(0, 1)
        [] q = 2 -> vec2(Neg(1), 0)
        [] q = 3 -> vec2(0, Neg(1))

length2(v) == RAdd(RMul(v.x, v.x), RMul(v.y, v.y))

\* lines 191-194 and 722-725: exp(-sigma * length2(p - position))
\*   * vec2(cos(k * (angles.y * p.y + angles.x * p.x)), sin(...))
wavefunction_at(p, sigma, position, angles) ==
  LET d == [x |-> RSub(p.x, position.x), y |-> RSub(p.y, position.y)]
      s == RAdd(RScale(angles.y, p.y), RScale(angles.x, p.x))
  IN  VScale(Envelope(RScale(sigma, length2(d))), PlaneWave(s, angles.norm2))

\* a direction <<vx, vy>> and its components on the unit circle:
\* [cos, sin] = [x, y] / sqrt(norm2)
angle_components(angle) ==
  [x |-> angle[1], y |-> angle[2], norm2 |-> angle[1] * angle[1] + angle[2] * angle[2]]

Up == <<0, 1>>                                  \* Math.PI/2
StartPosition == [x |-> <<1, 2>>, y |-> <<1, 4>>]   \* [0.5, 0.25]

initial_wavefunction(c) ==
  IF variant = "interactive"
  THEN wavefunction_at(st(c), 100, wave_position, wave_angle_components)
  ELSE wavefunction_at(st(c), 120, StartPosition, angle_components(Up))

(***************************************************************************)
(* Shaders                                                                 *)
(***************************************************************************)
\* the `time' uniform of create_texture: elapsedTime (line 528) or tick (line 1136)
time == IF variant = "interactive" THEN elapsedTime ELSE tick

\* mutant: the evolved field is used from the first step on (time >= 1)
create_texture_out_from_first_step ==
  LET u == samplers("create_texture")
  IN  [c \in Cells |-> IF time >= 1 THEN texture2D(u.k_combined_texture, c)
                                    ELSE initial_wavefunction(c)]

\* create_texture's main, lines 199-208 and 730-739
create_texture_out ==
  LET u == samplers("create_texture")
  IN  [c \in Cells |-> IF time > 1 THEN texture2D(u.k_combined_texture, c)
                                   ELSE initial_wavefunction(c)]

\* mutant: multiplies by sqrt(-1) instead of dividing (rotates 90 deg)
divide_by_sqrt_neg_one_rot90(c) == vec2(Neg(c[2]), c[1])

\* lines 98-101
divide_by_sqrt_neg_one(c) == vec2(c[2], Neg(c[1]))

\* the psi macro of each stage, lines 240, 286, 332, 378
psi_k1(u, c) == texture2D(u.wave_texture, c)
psi_k2(u, c) == VAdd(texture2D(u.wave_texture, c),
                     VScale(Mul(Half, dt), texture2D(u.k1_texture, c)))
psi_k3(u, c) == VAdd(texture2D(u.wave_texture, c),
                     VScale(Mul(Half, dt), texture2D(u.k2_texture, c)))
psi_k4(u, c) == VAdd(texture2D(u.wave_texture, c),
                     VScale(dt, texture2D(u.k3_texture, c)))

psi(n, u, c) ==
  CASE n = 1 -> psi_k1(u, c)
    [] n = 2 -> psi_k2(u, c)
    [] n = 3 -> psi_k3(u, c)
    [] n = 4 -> psi_k4(u, c)

\* compute_k, lines 104-114 (repeated in each static shader)
compute_k(n, u, c) ==
  LET psi_initial == psi(n, u, c)
      psi_y_inc == psi(n, u, <<c[1], c[2] + dxTexels>>)
      psi_x_inc == psi(n, u, <<c[1] + dxTexels, c[2]>>)
      psi_y_dec == psi(n, u, <<c[1], c[2] - dxTexels>>)
      psi_x_dec == psi(n, u, <<c[1] - dxTexels, c[2]>>)
      laplacian == VSub(VAdd(VAdd(VAdd(psi_y_inc, psi_x_inc), psi_y_dec), psi_x_dec),
                        VScale(4, psi_initial))
  IN  divide_by_sqrt_neg_one(VAdd(VNeg(laplacian),
                                  VScale(potential(n, u, c), psi_initial)))

StageName(n) == CASE n = 1 -> "k1" [] n = 2 -> "k2" [] n = 3 -> "k3" [] n = 4 -> "k4"

k_out(n) ==
  LET u == samplers(StageName(n))
  IN  [c \in Cells |-> compute_k(n, u, c)]

\* mutant: the weighted sum is not scaled by dt
combined_k_without_dt(u, c) ==
  VAdd(texture2D(u.wave_texture, c),
       VScale(Sixth,
              VAdd(VAdd(VAdd(texture2D(u.k1_texture, c),
                             VScale(2, texture2D(u.k2_texture, c))),
                        VScale(2, texture2D(u.k3_texture, c))),
                   texture2D(u.k4_texture, c))))

\* combined_k, lines 431 and 1053
combined_k(u, c) ==
  VAdd(texture2D(u.wave_texture, c),
       VScale(Sixth,
              VScale(dt, VAdd(VAdd(VAdd(texture2D(u.k1_texture, c),
                                        VScale(2, texture2D(u.k2_texture, c))),
                                   VScale(2, texture2D(u.k3_texture, c))),
                              texture2D(u.k4_texture, c)))))

combine_k_out ==
  LET u == samplers("combine_k")
  IN  [c \in Cells |-> combined_k(u, c)]

\* draw_frame's main, lines 476-482 and 1103-1109: the rgb written to the canvas
draw_frame_out ==
  LET u == samplers("draw_frame")
  IN  [c \in Cells |->
         LET v == texture2D(u.k_combined_texture, c)
             pot == IF variant = "interactive" THEN texture2D(u.potential_texture, c)[1]
                    ELSE potential_draw_frame(st(c))
         IN  <<pot, Add(v[1], pot), Add(v[2], pot)>>]

(***************************************************************************)
(* Mouse input helpers, lines 555-613                                      *)
(***************************************************************************)
\* clientX - rect.left and clientY - rect.top of the mouse events drawn
CursorPixels == {<<2, 3>>, <<3, 3>>, <<3, 1>>}

getCursorPosition(e) ==
  [x |-> <<e[1], Width>>, y |-> RSub(<<1, 1>>, <<e[2], Height>>)]

min_distance == <<1, 40>>                       \* 0.025

\* mutant: the distance is not looked at
farther_than_min_distance_always(p_a, p_b) == TRUE

\* distance(p_a, p_b) > min_distance, both sides squared
farther_than_min_distance(p_a, p_b) ==
  RGt(length2([x |-> RSub(p_a.x, p_b.x), y |-> RSub(p_a.y, p_b.y)]),
      RMul(min_distance, min_distance))

RECURSIVE GCD(_, _)
GCD(a, b) == IF b = 0 THEN a ELSE GCD(b, a % b)
Abs(n) == IF n < 0 THEN -n ELSE n

\* Math.atan2(dy, dx) of p_b - p_a, kept as the primitive integer vector of
\* that direction (atan2(0, 0) is the angle 0)
angle(p_a, p_b) ==
  LET vy == RSub(p_b.y, p_a.y)
      vx == RSub(p_b.x, p_a.x)
      nx == vx[1] * vy[2]
      ny == vy[1] * vx[2]
      g == GCD(Abs(nx), Abs(ny))
  IN  IF g = 0 THEN <<1, 0>> ELSE <<nx \div g, ny \div g>>

convert_to_canvas_coordinates(coord) ==
  <<RScale(Width, coord.x), RScale(Height, RSub(<<1, 1>>, coord.y))>>

draw_line(p_a, p_b) ==
  <<convert_to_canvas_coordinates(p_a), convert_to_canvas_coordinates(p_b)>>

(***************************************************************************)
(* The program                                                             *)
(***************************************************************************)
\* mutant: k2 is called before k1
frameLoop_passes_k2_first ==
  <<"create_texture", "k2", "k1", "k3", "k4", "combine_k", "draw_frame">>

\* mutant: the frame is drawn before the stages are combined
frameLoop_passes_draw_first ==
  <<"create_texture", "k1", "k2", "k3", "k4", "draw_frame", "combine_k">>

\* the calls of one frame callback, in order: lines 528-537 and 1136-1142
frameLoop_passes ==
  <<"create_texture", "k1", "k2", "k3", "k4", "combine_k", "draw_frame">>

\* mutant: k1 renders into the potential texture
framebuffer_k1_into_potential(pass) ==
  CASE pass = "two_slit_potential" -> "potentialBuffer"
    [] pass = "create_texture" -> "initialBuffer"
    [] pass = "k1" -> "potentialBuffer"
    [] pass = "k2" -> "k2Buffer"
    [] pass = "k3" -> "k3Buffer"
    [] pass = "k4" -> "k4Buffer"
    [] pass = "combine_k" -> "kCombined"

\* mutant: combine_k updates the wave texture in place
framebuffer_combine_in_place(pass) ==
  CASE pass = "two_slit_potential" -> "potentialBuffer"
    [] pass = "create_texture" -> "initialBuffer"
    [] pass = "k1" -> "k1Buffer"
    [] pass = "k2" -> "k2Buffer"
    [] pass = "k3" -> "k3Buffer"
    [] pass = "k4" -> "k4Buffer"
    [] pass = "combine_k" -> "initialBuffer"

\* the `framebuffer:' each command renders to
framebuffer(pass) ==
  CASE pass = "two_slit_potential" -> "potentialBuffer"
    [] pass = "create_texture" -> "initialBuffer"
    [] pass = "k1" -> "k1Buffer"
    [] pass = "k2" -> "k2Buffer"
    [] pass = "k3" -> "k3Buffer"
    [] pass = "k4" -> "k4Buffer"
    [] pass = "combine_k" -> "kCombined"

Black == [c \in Cells |-> <<0, 0, 0>>]

\* no potential shader is being looked at
NoFragment == [shader |-> "none"]

\* everything but the configuration (variant, dt) and the fragment looked at
Constructed ==
  /\ fbo = [b \in BufferNames |-> makeFrameBuffer]
  /\ pc = IF variant = "interactive" THEN -1 ELSE 0
  /\ elapsedTime = 0
  /\ tick = 0
  /\ cancelled = FALSE
  /\ MOUSE_DOWN = FALSE
  /\ wave_position = StartPosition
  /\ wave_angle = Up
  /\ wave_angle_components = angle_components(Up)
  /\ topCanvas = "clear"
  /\ frame_display = 0
  /\ screen = Black
  /\ passes = <<>>
  /\ builds = 0
  /\ reset = "none"

Init ==
  /\ variant \in {"interactive", "static"}
  /\ dt = Quarter
  /\ Constructed
  /\ fragment = NoFragment

mouse == <<MOUSE_DOWN, wave_position, wave_angle, wave_angle_components, topCanvas>>

\* line 506: the potential texture is created while the script loads
Script ==
  /\ pc = -1
  /\ fbo' = [fbo EXCEPT ![framebuffer("two_slit_potential")] = two_slit_potential_out]
  /\ builds' = builds + 1
  /\ pc' = 0
  /\ UNCHANGED <<variant, dt, fragment, elapsedTime, tick, cancelled, mouse, frame_display,
                 screen, passes, reset>>

\* the head of the frame callback: lines 512-524, and regl's tick with lines 1131-1135
FrameBegin ==
  /\ pc = 0
  /\ ~cancelled
  /\ IF variant = "interactive"
     THEN /\ elapsedTime' = (IF MOUSE_DOWN THEN 0 ELSE elapsedTime) + 1
          /\ frame_display' = elapsedTime'
          /\ tick' = tick
     ELSE /\ tick' = tick + 1
          /\ UNCHANGED <<elapsedTime, frame_display>>
  /\ screen' = Black
  /\ passes' = <<>>
  /\ reset' = IF reset = "pressed" THEN "due" ELSE "none"
  /\ pc' = 1
  /\ UNCHANGED <<variant, dt, fragment, fbo, cancelled, mouse, builds>>

\* one regl command of the frame callback: it renders `out' into its framebuffer
Render(pass, out) ==
  /\ pc \in 1 .. Len(frameLoop_passes)
  /\ frameLoop_passes[pc] = pass
  /\ fbo' = [fbo EXCEPT ![framebuffer(pass)] = out]
  /\ passes' = Append(passes, pass)
  /\ pc' = pc + 1
  /\ UNCHANGED <<variant, dt, fragment, elapsedTime, tick, cancelled, mouse, frame_display,
                 screen, builds, reset>>

create_texture == Render("create_texture", create_texture_out)
k1 == Render("k1", k_out(1))
k2 == Render("k2", k_out(2))
k3 == Render("k3", k_out(3))
k4 == Render("k4", k_out(4))
combine_k == Render("combine_k", combine_k_out)

\* draw_frame has no framebuffer: it renders to the canvas
draw_frame ==
  /\ pc \in 1 .. Len(frameLoop_passes)
  /\ frameLoop_passes[pc] = "draw_frame"
  /\ screen' = draw_frame_out
  /\ passes' = Append(passes, "draw_frame")
  /\ pc' = pc + 1
  /\ UNCHANGED <<variant, dt, fragment, fbo, elapsedTime, tick, cancelled, mouse,
                 frame_display, builds, reset>>

\* mutant: the tick limit is never acted on
FrameEnd_ignores_limit ==
  /\ pc = Len(frameLoop_passes) + 1
  /\ pc' = 0
  /\ reset' = "none"
  /\ UNCHANGED <<variant, dt, fragment, fbo, elapsedTime, tick, cancelled, mouse, frame_display,
                 screen, passes, builds>>

\* mutant: the limit is compared with >= instead of ===
FrameEnd_limit_at_least(limit) ==
  /\ pc = Len(frameLoop_passes) + 1
  /\ IF variant = "interactive"
     THEN /\ elapsedTime' = IF elapsedTime >= limit THEN 0 ELSE elapsedTime
          /\ UNCHANGED cancelled
     ELSE /\ cancelled' = (cancelled \/ tick >= limit)
          /\ UNCHANGED elapsedTime
  /\ pc' = 0
  /\ reset' = "none"
  /\ UNCHANGED <<variant, dt, fragment, fbo, tick, mouse, frame_display, screen, passes, builds>>

\* mutant: at the limit the tick index is set to 1 instead of 0
FrameEnd_limit_wraps_to_one(limit) ==
  /\ pc = Len(frameLoop_passes) + 1
  /\ IF variant = "interactive"
     THEN /\ elapsedTime' = IF elapsedTime = limit THEN 1 ELSE elapsedTime
          /\ UNCHANGED cancelled
     ELSE /\ cancelled' = (cancelled \/ tick = limit)
          /\ UNCHANGED elapsedTime
  /\ pc' = 0
  /\ reset' = "none"
  /\ UNCHANGED <<variant, dt, fragment, fbo, tick, mouse, frame_display, screen, passes, builds>>

\* the tail of the frame callback, lines 539-542 and 1144-1149, for a value
\* `limit' of animationTimeLimit / animationTickLimit
FrameEnd_limit(limit) ==
  /\ pc = Len(frameLoop_passes) + 1
  /\ IF variant = "interactive"
     THEN /\ elapsedTime' = IF elapsedTime = limit THEN 0 ELSE elapsedTime
          /\ UNCHANGED cancelled
     ELSE /\ cancelled' = (cancelled \/ tick = limit)
          /\ UNCHANGED elapsedTime
  /\ pc' = 0
  /\ reset' = "none"
  /\ UNCHANGED <<variant, dt, fragment, fbo, tick, mouse, frame_display, screen, passes, builds>>

\* the tail of the frame callback: lines 539-542 and 1144-1149
FrameEnd ==
  FrameEnd_limit(IF variant = "interactive" THEN animationTimeLimit
                                            ELSE animationTickLimit)

\* the listeners run between frame callbacks, never inside one
Listening == variant = "interactive" /\ pc = 0

program == <<fragment, variant, dt, fbo, pc, elapsedTime, tick, cancelled, frame_display,
             screen, passes, builds>>

\* lines 562-565
mousedown(e) ==
  /\ Listening
  /\ MOUSE_DOWN' = TRUE
  /\ wave_position' = getCursorPosition(e)
  /\ reset' = "pressed"
  /\ UNCHANGED <<program, wave_angle, wave_angle_components, topCanvas>>

\* lines 567-570
mouseup ==
  /\ Listening
  /\ MOUSE_DOWN' = FALSE
  /\ topCanvas' = "clear"
  /\ UNCHANGED <<program, reset, wave_position, wave_angle, wave_angle_components>>

\* lines 572-579
mouseout ==
  /\ Listening
  /\ MOUSE_DOWN
  /\ MOUSE_DOWN' = FALSE
  /\ topCanvas' = "clear"
  /\ UNCHANGED <<program, reset, wave_position, wave_angle, wave_angle_components>>

\* lines 582-593
mousemove(e) ==
  /\ Listening
  /\ MOUSE_DOWN
  /\ LET cursor_position == getCursorPosition(e)
     IN  /\ farther_than_min_distance(wave_position, cursor_position)
         /\ wave_angle' = angle(wave_position, cursor_position)
         /\ wave_angle_components' = angle_components(wave_angle')
         /\ topCanvas' = draw_line(wave_position, cursor_position)
  /\ UNCHANGED <<program, reset, MOUSE_DOWN, wave_position>>

Frame ==
  \/ FrameBegin
  \/ create_texture
  \/ k1
  \/ k2
  \/ k3
  \/ k4
  \/ combine_k
  \/ draw_frame
  \/ FrameEnd

Next ==
  \/ Script
  \/ Frame
  \/ \E e \in CursorPixels : mousedown(e)
  \/ mouseup
  \/ mouseout
  \/ \E e \in CursorPixels : mousemove(e)

Spec == Init /\ [][Next]_vars

(***************************************************************************)
(* One RK4 step as a function of its input: the frame callback run on a    *)
(* field drawn from a bounded set.  The state drawn is the one between the *)
(* first and the second frame, with kCombined holding the drawn field, so  *)
(* that create_texture takes it as psi_n.                                  *)
(***************************************************************************)
Amplitudes == {vec2(a, 0) : a \in 1 .. MaxAmp} \cup {vec2(0, a) : a \in 1 .. MaxAmp}

\* a constant background with one texel set apart
InputFields ==
  {[c \in Cells |-> IF c = probe THEN v ELSE vec2(b, 0)] :
     probe \in Cells, v \in Amplitudes, b \in 0 .. MaxAmp}

StepInit ==
  /\ variant \in {"interactive", "static"}
  /\ dt \in {0, Quarter}
  /\ \E psi_n \in InputFields :
       \E V \in (IF variant = "interactive" THEN {two_slit_potential_out, Blank}
                                             ELSE {Blank}) :
         fbo = [b \in BufferNames |->
                  IF b = "kCombined" THEN psi_n
                  ELSE IF b = "potentialBuffer" THEN V ELSE makeFrameBuffer]
  /\ pc = 0
  /\ elapsedTime = 1
  /\ tick = 1
  /\ cancelled = FALSE
  /\ MOUSE_DOWN = FALSE
  /\ wave_position = StartPosition
  /\ wave_angle = Up
  /\ wave_angle_components = angle_components(Up)
  /\ topCanvas = "clear"
  /\ frame_display = 1
  /\ screen = Black
  /\ passes = <<>>
  /\ builds = IF variant = "interactive" THEN 1 ELSE 0
  /\ reset = "none"
  /\ fragment = NoFragment

\* the first frame always; with dt = 0 further frames up to MaxTicks
StepBegin ==
  /\ passes = <<>> \/ (dt = 0 /\ time \in 1 .. MaxTicks)
  /\ FrameBegin

StepNext ==
  \/ StepBegin
  \/ create_texture
  \/ k1
  \/ k2
  \/ k3
  \/ k4
  \/ combine_k
  \/ draw_frame
  \/ FrameEnd

SpecStep == StepInit /\ [][StepNext]_vars

(***************************************************************************)
(* The programs with the limit set to -1 ("-1 disables", lines 498 and     *)
(* 1121), run for MaxFrames frames.                                        *)
(***************************************************************************)
UnboundedBegin ==
  /\ time < MaxFrames
  /\ FrameBegin

UnboundedEnd == FrameEnd_limit(-1)

UnboundedNext ==
  \/ Script
  \/ UnboundedBegin
  \/ create_texture
  \/ k1
  \/ k2
  \/ k3
  \/ k4
  \/ combine_k
  \/ draw_frame
  \/ UnboundedEnd
  \/ \E e \in CursorPixels : mousedown(e)
  \/ mouseup
  \/ mouseout
  \/ \E e \in CursorPixels : mousemove(e)

SpecUnbounded == Init /\ [][UnboundedNext]_vars

(***************************************************************************)
(* The programs for other values of the constant dt (lines 35 and 692):    *)
(* 0.25 as in the source, 0 and -0.25.                                     *)
(***************************************************************************)
TimeSteps == {Quarter, 0, Neg(Quarter)}

ConfigInit ==
  /\ variant \in {"interactive", "static"}
  /\ dt \in TimeSteps
  /\ Constructed
  /\ fragment = NoFragment

SpecConfig == ConfigInit /\ [][Next]_vars

(***************************************************************************)
(* The potential shaders as functions of one fragment: a canvas of sides   *)
(* MinSide or MaxSide, a pixel of it, and the shader that is run on it.    *)
(***************************************************************************)
Sides == {MinSide, MaxSide}

PotentialShaders ==
  IF variant = "interactive" THEN {"two_slit_potential"}
  ELSE {"k1", "k2", "k3", "k4", "draw_frame"}

Fragments ==
  {[shader |-> sh, resolution |-> <<w, h>>, coord |-> <<i, j>>, potential |-> <<>>] :
     sh \in PotentialShaders, w \in Sides, h \in Sides,
     i \in 0 .. MaxSide - 1, j \in 0 .. MaxSide - 1}

\* gl_FragCoord.xy / u_resolution, gl_FragCoord being the pixel centre
fragment_st(f) ==
  [x |-> <<2 * f.coord[1] + 1, 2 * f.resolution[1]>>,
   y |-> <<2 * f.coord[2] + 1, 2 * f.resolution[2]>>]

\* dx = 1.0 / (width / 2)
fragment_dx(f) == <<2, f.resolution[1]>>

\* potential(st) of the fragment's shader
fragment_potential(f) ==
  IF f.shader = "two_slit_potential"
  THEN potential_two_slit_at(fragment_st(f), fragment_dx(f))
  ELSE square_well_two_slit_at(fragment_st(f), barrier_of(f.shader), fragment_dx(f))

PotentialInit ==
  /\ variant \in {"interactive", "static"}
  /\ dt = Quarter
  /\ Constructed
  /\ fragment \in {f \in Fragments : /\ f.coord[1] < f.resolution[1]
                                     /\ f.coord[2] < f.resolution[2]}

Shade ==
  /\ fragment.shader # "none"
  /\ fragment.potential = <<>>
  /\ fragment' = [fragment EXCEPT !.potential = <<fragment_potential(fragment)>>]
  /\ UNCHANGED <<variant, dt, fbo, pc, elapsedTime, tick, cancelled, mouse,
                 frame_display, screen, passes, builds, reset>>

SpecPotential == PotentialInit /\ [][Shade]_vars

(***************************************************************************)
(* Properties                                                              *)
(***************************************************************************)
Ran(pass) == \E n \in 1 .. Len(passes) : passes[n] = pass

RanBefore(a, b) ==
  \E n \in 1 .. Len(passes) : passes[n] = b /\ \E m \in 1 .. n - 1 : passes[m] = a

InFrame == pc >= 1

\* C1: in every frame the passes run in the order create_texture, k1, k2, k3,
\* k4, combine_k (then draw_frame), each on the whole grid: once stage i has
\* run in a frame its buffer is the stage derivative of the buffers of this
\* frame (the k buffer it read was rewritten before it in this frame), and
\* once combine_k has run, kCombined is the combination of this frame's four
\* stage buffers.
C1_PassOrder ==
  /\ Len(passes) <= 7
  /\ passes = SubSeq(<<"create_texture", "k1", "k2", "k3", "k4", "combine_k",
                       "draw_frame">>, 1, Len(passes))
  /\ Ran("k1") => fbo.k1Buffer = k_out(1)
  /\ Ran("k2") => RanBefore("k1", "k2") /\ fbo.k2Buffer = k_out(2)
  /\ Ran("k3") => RanBefore("k2", "k3") /\ fbo.k3Buffer = k_out(3)
  /\ Ran("k4") => RanBefore("k3", "k4") /\ fbo.k4Buffer = k_out(4)
  /\ Ran("combine_k") =>
       /\ \A k \in {"k1", "k2", "k3", "k4"} : RanBefore(k, "combine_k")
       /\ fbo.kCombined = combine_k_out

\* a second or later frame has run all its passes, and stepping changed the field
C1_Witness ==
  /\ time >= 2
  /\ Len(passes) = 7
  /\ fbo.kCombined # fbo.initialBuffer
  /\ fbo.k2Buffer # fbo.k1Buffer

\* the loop is between frames and the frame just run had the limit as tick index
LimitReached ==
  /\ pc = 0
  /\ Len(passes) = 7
  /\ IF variant = "interactive" THEN frame_display = animationTimeLimit
                                ELSE tick = animationTickLimit

InitialWave ==
  [c \in Cells |-> wavefunction_at(st(c), 100, wave_position, wave_angle_components)]

\* C3: in a frame that follows a mousedown the tick index is 1 and the field
\* stepped is the initial wave packet built from the current wave parameters.
C3_ResetOnEveryMousedown ==
  (variant = "interactive" /\ reset = "due" /\ InFrame) =>
     /\ elapsedTime = 1
     /\ Ran("create_texture") => fbo.initialBuffer = InitialWave

\* C4: two_slit_potential runs once, while the script loads and before any
\* frame; after that no step of any kind changes potentialBuffer.
C4_PotentialBuiltOnce ==
  /\ [](variant = "interactive" => builds = (IF pc = -1 THEN 0 ELSE 1))
  /\ [](variant = "static" => builds = 0)
  /\ [](pc = -1 => (elapsedTime = 0 /\ passes = <<>> /\ fbo.potentialBuffer = Blank))
  /\ []((variant = "interactive" /\ pc # -1) => fbo.potentialBuffer = two_slit_potential_out)
  /\ [][pc # -1 => fbo'.potentialBuffer = fbo.potentialBuffer]_vars

\* the loop has wrapped at the tick limit with the button down, potential intact
C4_Witness ==
  /\ variant = "interactive"
  /\ LimitReached
  /\ MOUSE_DOWN
  /\ wave_position # StartPosition
  /\ fbo.potentialBuffer = two_slit_potential_out
  /\ fbo.potentialBuffer # Blank

WaveBuffers == BufferNames \ {"potentialBuffer"}

\* what C5 says each pass reads and writes
C5_Table ==
  [create_texture |-> [reads |-> {"kCombined"}, writes |-> "initialBuffer"],
   k1 |-> [reads |-> {"initialBuffer"}, writes |-> "k1Buffer"],
   k2 |-> [reads |-> {"initialBuffer", "k1Buffer"}, writes |-> "k2Buffer"],
   k3 |-> [reads |-> {"initialBuffer", "k2Buffer"}, writes |-> "k3Buffer"],
   k4 |-> [reads |-> {"initialBuffer", "k3Buffer"}, writes |-> "k4Buffer"],
   combine_k |-> [reads |-> {"initialBuffer", "k1Buffer", "k2Buffer", "k3Buffer",
                             "k4Buffer"},
                  writes |-> "kCombined"]]

RangeOf(f) == {f[x] : x \in DOMAIN f}

\* C5: initialBuffer changes only in the create_texture step that opens a
\* frame; every pass changes no wave buffer but the one the table gives it,
\* samples exactly the wave buffers the table gives it, and never samples the
\* buffer it renders to.
C5_InputReadOnly ==
  [][/\ fbo'.initialBuffer # fbo.initialBuffer =>
          (pc = 1 /\ passes = <<>> /\ passes' = <<"create_texture">>)
     /\ (pc >= 1 /\ Len(passes') = Len(passes) + 1
           /\ passes'[Len(passes')] \in DOMAIN C5_Table) =>
          LET pass == passes'[Len(passes')]
          IN  /\ \A b \in BufferNames : fbo'[b] # fbo[b] => b = C5_Table[pass].writes
              /\ RangeOf(uniforms(pass)) \cap WaveBuffers = C5_Table[pass].reads
              /\ C5_Table[pass].writes \notin RangeOf(uniforms(pass))]_vars

\* combine_k has run in a second or later frame and psi_n is still in initialBuffer
C5_Witness ==
  /\ time >= 2
  /\ passes = <<"create_texture", "k1", "k2", "k3", "k4", "combine_k">>
  /\ fbo.initialBuffer # Blank
  /\ fbo.kCombined # fbo.initialBuffer

\* C6: draw_frame runs after combine_k of its frame and shows the complete
\* psi_{n+1}: kCombined is the combination of this frame's stages and the
\* canvas is rendered from it; the mouse state, the tick index and the
\* cancellation change only between frames.
C6_DrawsCompleteField ==
  /\ [](Ran("draw_frame") =>
          /\ RanBefore("combine_k", "draw_frame")
          /\ \A n \in 1 .. 4 : fbo[framebuffer(StageName(n))] = k_out(n)
          /\ fbo.kCombined = combine_k_out
          /\ screen = draw_frame_out)
  /\ [][(mouse' # mouse \/ cancelled' # cancelled \/ elapsedTime' # elapsedTime
           \/ tick' # tick)
          => pc \notin 1 .. 7]_vars

C6_Witness ==
  /\ Ran("draw_frame")
  /\ time >= 2
  /\ screen # Black
  /\ fbo.kCombined # fbo.initialBuffer

\* C7: in a tick the four stages use the same potential at every grid point.
C7_SamePotentialInAllStages ==
  Ran("k4") =>
    \A c \in Cells : \A n \in 2 .. 4 :
      potential(n, samplers(StageName(n)), c) = potential(1, samplers("k1"), c)

(***************************************************************************)
(* The reference the numerical claims are measured against: fields are     *)
(* functions on Cells, the neighbours of a point are dx away in each axis  *)
(* direction, and a point off the grid is read at the nearest edge texel.  *)
(***************************************************************************)
At(F, i, j) == F[<<Clamp(i, Width), Clamp(j, Height)>>]

Laplacian(F, c) ==
  VSub(VAdd(VAdd(At(F, c[1], c[2] + dxTexels), At(F, c[1] + dxTexels, c[2])),
            VAdd(At(F, c[1], c[2] - dxTexels), At(F, c[1] - dxTexels, c[2]))),
       VScale(4, F[c]))

rot270(z) == <<z[2], Neg(z[1])>>

\* f = rot270(-L(F) + V * F), on the whole field
Derivative(F, V) ==
  [c \in Cells |-> rot270(VAdd(VNeg(Laplacian(F, c)), VScale(V[c], F[c])))]

\* F + s * K, on the whole field
Axpy(F, s, K) == [c \in Cells |-> VAdd(F[c], VScale(s, K[c]))]

RK4(F, V, h) ==
  LET K1 == Derivative(F, V)
      K2 == Derivative(Axpy(F, Mul(Half, h), K1), V)
      K3 == Derivative(Axpy(F, Mul(Half, h), K2), V)
      K4 == Derivative(Axpy(F, h, K3), V)
  IN  [c \in Cells |->
         VAdd(F[c], VScale(Mul(h, Sixth),
                           VAdd(VAdd(K1[c], VScale(2, K2[c])),
                                VAdd(VScale(2, K3[c]), K4[c]))))]

\* the potential field of the run: the potential texture, or in the static
\* program the potential its first stage defines
PotentialField ==
  IF variant = "interactive" THEN [c \in Cells |-> fbo.potentialBuffer[c][1]]
  ELSE [c \in Cells |-> potential_k1(st(c))]

\* C8: once combine_k has run, kCombined is the RK4 step of the field in
\* initialBuffer under the potential field of the run.
C8_TickIsRK4Step ==
  Ran("combine_k") => fbo.kCombined = RK4(fbo.initialBuffer, PotentialField, dt)

\* the same for the interactive program alone
RK4StepInteractive ==
  (variant = "interactive" /\ Ran("combine_k")) =>
     fbo.kCombined = RK4(fbo.initialBuffer, PotentialField, dt)

\* the trial field of stage n, from the buffers of the frame
Trial(n) ==
  CASE n = 1 -> fbo.initialBuffer
    [] n = 2 -> Axpy(fbo.initialBuffer, Mul(Half, dt), fbo.k1Buffer)
    [] n = 3 -> Axpy(fbo.initialBuffer, Mul(Half, dt), fbo.k2Buffer)
    [] n = 4 -> Axpy(fbo.initialBuffer, dt, fbo.k3Buffer)

\* the potential stage n uses, as a field
StagePotential(n) == [c \in Cells |-> potential(n, samplers(StageName(n)), c)]

StageBuffer(n) ==
  CASE n = 1 -> "k1Buffer" [] n = 2 -> "k2Buffer" [] n = 3 -> "k3Buffer"
    [] n = 4 -> "k4Buffer"

\* C9: what a stage pass writes is rot270(-L(psi) + V * psi) of its trial field
\* at every grid point, with the four neighbours dx away; the step that runs
\* a stage changes its own buffer and nothing else.
C9_StageDerivative ==
  /\ [](\A n \in 1 .. 4 :
          Ran(StageName(n)) =>
            fbo[StageBuffer(n)] = Derivative(Trial(n), StagePotential(n)))
  /\ [][\A n \in 1 .. 4 :
          (pc >= 1 /\ passes' = Append(passes, StageName(n))) =>
             /\ \A b \in BufferNames \ {StageBuffer(n)} : fbo'[b] = fbo[b]
             /\ UNCHANGED <<variant, dt, elapsedTime, tick, cancelled, mouse,
                            frame_display, screen, builds>>]_vars

\* all four stages have run on a field and none of the derivatives vanishes
C9_Witness ==
  /\ Ran("k4")
  /\ dt = Quarter
  /\ \A n \in 1 .. 4 : fbo[StageBuffer(n)] # Blank
  /\ fbo.k1Buffer # fbo.k2Buffer
  /\ fbo.k3Buffer # fbo.k4Buffer

\* C10: with dt = 0 a tick returns its input field exactly, and so does any
\* number of ticks.
C10_ZeroDtIdentity ==
  /\ []((dt = 0 /\ Ran("combine_k")) => fbo.kCombined = fbo.initialBuffer)
  /\ [][dt = 0 => fbo'.kCombined = fbo.kCombined]_vars

\* the second tick with dt = 0 has combined derivatives that do not vanish
C10_Witness ==
  /\ dt = 0
  /\ time = 3
  /\ Ran("combine_k")
  /\ fbo.kCombined # Blank
  /\ \A n \in 1 .. 4 : fbo[StageBuffer(n)] # Blank

(***************************************************************************)
(* The potential, in whole numbers.  For a fragment of pixel (i, j) on a   *)
(* w x h canvas, X = 2i + 1 and Y = 2j + 1 are its centre in half pixels:  *)
(* x = X / 2w, y = Y / 2h, and dx = 2 / w.                                 *)
(***************************************************************************)
REq(a, b) == a[1] * b[2] = b[1] * a[2]

Shaded == fragment.shader # "none" /\ fragment.potential # <<>>

FragX == 2 * fragment.coord[1] + 1
FragY == 2 * fragment.coord[2] + 1
FragW == fragment.resolution[1]
FragH == fragment.resolution[2]

\* |y - 1/2| < dx
InBand == FragW * Abs(FragY - FragH) < 4 * FragH

\* x in [0.4, 0.45] or in [0.55, 0.6]
InSlit ==
  \/ 4 * FragW <= 5 * FragX /\ 10 * FragX <= 9 * FragW
  \/ 11 * FragW <= 10 * FragX /\ 5 * FragX <= 6 * FragW

\* less than two grid steps (2 * dx) from an edge of the canvas
InMarginTwoSteps ==
  \/ FragX < 8
  \/ FragX > 2 * FragW - 8
  \/ FragW * FragY < 8 * FragH
  \/ FragW * FragY > 2 * FragW * FragH - 8 * FragH

\* less than a hundredth of the canvas side from an edge
InMarginHundredth ==
  \/ 100 * FragX < 2 * FragW
  \/ 100 * FragX > 198 * FragW
  \/ 100 * FragY < 2 * FragH
  \/ 100 * FragY > 198 * FragH

\* the fragment k pixel rows higher on the same canvas
RowsUp(k) == [fragment EXCEPT !.coord = <<fragment.coord[1], fragment.coord[2] + k>>]

IsBarrier(f) == ~RLt(fragment_potential(f), <<3, 1>>)

\* C11 as stated, for the two-slit potential texture: the band is one grid
\* cell thick (a barrier cell has no barrier cell one grid step, two pixels,
\* above it on a square canvas); band cells outside the slits carry 3 plus
\* the wall value and band cells inside a slit carry 0.
C11_BandOneCellThick ==
  (Shaded /\ fragment.shader = "two_slit_potential") =>
     /\ (FragW = FragH /\ IsBarrier(fragment)) => ~IsBarrier(RowsUp(2))
     /\ (InBand /\ ~InSlit) =>
          REq(fragment.potential[1], <<3 + float(InMarginTwoSteps), 1>>)
     /\ (InBand /\ InSlit) => REq(fragment.potential[1], <<0, 1>>)

\* C11 amended: the band is the cells with |y - 1/2| < dx, two grid steps
\* thick (on a square canvas the pixel rows j with |2j + 1 - h| < 4); its
\* cells outside the slits carry 3 plus the wall value, its cells inside a
\* slit carry 0, and no cell outside the band reaches the barrier value.
C11_BandTwoStepsThick ==
  (Shaded /\ fragment.shader = "two_slit_potential") =>
     /\ (InBand /\ ~InSlit) =>
          REq(fragment.potential[1], <<3 + float(InMarginTwoSteps), 1>>)
     /\ (InBand /\ InSlit) => REq(fragment.potential[1], <<0, 1>>)
     /\ ~InBand => RLt(fragment.potential[1], <<3, 1>>)
     /\ FragW = FragH => (InBand <=> Abs(FragY - FragH) < 4)

\* a barrier cell of a square canvas whose neighbour one grid step up is a
\* barrier cell too
C11_Witness ==
  /\ Shaded
  /\ fragment.shader = "two_slit_potential"
  /\ FragW = FragH
  /\ InBand /\ ~InSlit
  /\ REq(fragment.potential[1], <<3, 1>>)
  /\ IsBarrier(RowsUp(2))

\* the wall part of the fragment's potential: what is left without the barrier
WallPart ==
  RSub(fragment.potential[1],
       IF InBand /\ ~InSlit
       THEN (IF fragment.shader = "two_slit_potential" THEN <<3, 1>>
                                                       ELSE barrier_of(fragment.shader))
       ELSE <<0, 1>>)

\* C12 as stated: no value is negative, a cell has a nonzero wall value iff
\* it is within two grid cells of an edge, and a cell that is neither there
\* nor in the band outside the slits is 0.
C12_WallMarginTwoCells ==
  Shaded =>
     /\ fragment.potential[1][1] >= 0 /\ fragment.potential[1][2] > 0
     /\ ~REq(WallPart, <<0, 1>>) <=> InMarginTwoSteps
     /\ (~InMarginTwoSteps /\ ~(InBand /\ ~InSlit)) => REq(fragment.potential[1], <<0, 1>>)

\* the margin each program uses
InMargin ==
  IF fragment.shader = "two_slit_potential" THEN InMarginTwoSteps ELSE InMarginHundredth

\* C12 amended: no value is negative; the wall value is 1 inside the margin
\* and 0 outside it, the margin being 2 * dx in the interactive program and
\* 0.01 of the canvas side in the static one; a cell that is neither in the
\* margin nor in the band outside the slits is 0.
C12_WallMargin ==
  Shaded =>
     /\ fragment.potential[1][1] >= 0 /\ fragment.potential[1][2] > 0
     /\ REq(WallPart, <<float(InMargin), 1>>)
     /\ (~InMargin /\ ~(InBand /\ ~InSlit)) => REq(fragment.potential[1], <<0, 1>>)

\* a wall cell of each program: the last one of the margin, inside the band
C12_Witness ==
  /\ Shaded
  /\ InMargin
  /\ InBand
  /\ FragW = MaxSide
  /\ \/ fragment.shader = "two_slit_potential" /\ fragment.coord[1] = 3
     \/ fragment.shader = "k1" /\ fragment.coord[1] = 0
  /\ REq(fragment.potential[1], <<4, 1>>)

\* C13: with the limit at -1 no frame cancels the loop or sets the tick index
\* back at its end; the tick index only goes back when a frame begins with
\* the button down; whenever the loop is between frames the frame run last
\* ran every pass, and the next frame can begin.
C13_Unbounded ==
  /\ [](~cancelled)
  /\ []((pc = 0 /\ time >= 1) => Len(passes) = Len(frameLoop_passes))
  /\ []((pc = 0 /\ time < MaxFrames) => ENABLED UnboundedBegin)
  /\ [][pc = Len(frameLoop_passes) + 1 =>
          (elapsedTime' = elapsedTime /\ tick' = tick /\ cancelled' = cancelled)]_vars
  /\ [][(variant = "interactive" /\ elapsedTime' # elapsedTime) =>
          (pc = 0 /\ elapsedTime' = (IF MOUSE_DOWN THEN 0 ELSE elapsedTime) + 1)]_vars

\* a frame beyond both limits of the source has been stepped
C13_Witness ==
  /\ time = MaxFrames
  /\ time > animationTickLimit
  /\ time > animationTimeLimit
  /\ pc = 0
  /\ Len(passes) = Len(frameLoop_passes)
  /\ fbo.kCombined # fbo.initialBuffer

\* C14: with a dt that is not positive the construction fails: no potential
\* is built and no pass of any tick ever runs.
C14_FailsFastOnBadConfig ==
  dt \in {0, Neg(Quarter)} =>
     /\ builds = 0
     /\ fbo.potentialBuffer = Blank
     /\ time = 0
     /\ passes = <<>>

\* the buffers of the frame are one RK4 step of initialBuffer under the
\* potential field: each stage buffer is the derivative of its trial field
\* and kCombined is the weighted sum
StagewiseRK4 ==
  /\ \A n \in 1 .. 4 :
       fbo[StageBuffer(n)] = Derivative(Trial(n), PotentialField)
  /\ fbo.kCombined =
       Axpy(fbo.initialBuffer, Mul(dt, Sixth),
            [c \in Cells |->
               VAdd(VAdd(fbo.k1Buffer[c], VScale(2, fbo.k2Buffer[c])),
                    VAdd(VScale(2, fbo.k3Buffer[c]), fbo.k4Buffer[c]))])

\* C15, interactive program: the tick index of a frame is 1 or one more than
\* that of the frame before, and it is the number displayed; create_texture
\* builds the initial wave packet from the wave parameters of the frame iff
\* the tick index is 1 and otherwise copies kCombined, which nothing but
\* combine_k has changed since the frame before; combine_k leaves in
\* kCombined one RK4 step of that field.  So after the frame with tick index
\* t, kCombined is t RK4 steps of the packet built at the last frame of
\* index 1.
C15_FieldIsTSteps ==
  /\ []((variant = "interactive" /\ InFrame) =>
          /\ elapsedTime >= 1
          /\ frame_display = elapsedTime
          /\ (Ran("create_texture") /\ elapsedTime = 1) => fbo.initialBuffer = InitialWave
          /\ Ran("combine_k") => StagewiseRK4)
  /\ [][variant = "interactive" =>
          /\ pc = 0 /\ pc' = 1 =>
               (elapsedTime' = 1 \/ elapsedTime' = frame_display + 1)
          /\ pc = 1 =>
               fbo'.initialBuffer = (IF elapsedTime = 1 THEN InitialWave ELSE fbo.kCombined)
          /\ fbo'.kCombined # fbo.kCombined => frameLoop_passes[pc] = "combine_k"
          /\ pc >= 1 => /\ wave_position' = wave_position
                        /\ wave_angle_components' = wave_angle_components
                        /\ frame_display' = frame_display]_vars

\* the third frame after a packet was placed with the mouse has been stepped
C15_Witness ==
  /\ variant = "interactive"
  /\ elapsedTime = 3
  /\ Ran("draw_frame")
  /\ ~MOUSE_DOWN
  /\ wave_position # StartPosition
  /\ wave_angle # Up
  /\ fbo.kCombined # fbo.initialBuffer
  /\ fbo.initialBuffer # InitialWave

\* C16, interactive program: the loop never stops; the tick index of a frame
\* lies in 1 .. animationTimeLimit; at the end of the frame whose index is
\* animationTimeLimit it is set to 0, and the frame after it has index 1 and
\* steps the initial wave packet of the current wave parameters.
C16_InteractiveLoops ==
  /\ []((variant = "interactive" /\ InFrame) => elapsedTime \in 1 .. animationTimeLimit)
  /\ []((variant = "interactive" /\ pc = 0) =>
          /\ elapsedTime \in 0 .. animationTimeLimit - 1
          /\ ~cancelled
          /\ ENABLED FrameBegin)
  /\ []((variant = "interactive" /\ LimitReached) => elapsedTime = 0)
  /\ []((variant = "interactive" /\ InFrame /\ elapsedTime = 1 /\ Ran("create_texture")) =>
          fbo.initialBuffer = InitialWave)
  /\ [][(variant = "interactive" /\ LimitReached /\ pc' = 1) => elapsedTime' = 1]_vars

\* the frame after a wrap, in a run without any mouse event: the field of
\* the loop before is still in kCombined and the packet is back in initialBuffer
C16_Witness ==
  /\ variant = "interactive"
  /\ elapsedTime = 1
  /\ passes = <<"create_texture">>
  /\ wave_position = StartPosition
  /\ fbo.kCombined # Blank
  /\ fbo.initialBuffer = InitialWave
  /\ fbo.initialBuffer # fbo.kCombined

\* the points are more than 0.025 apart: 1600 * |p_a - p_b|^2 > 1
MoreThanFortiethApart(p_a, p_b) ==
  LET ex == RSub(p_a.x, p_b.x)
      ey == RSub(p_a.y, p_b.y)
      n == ex[1] * ex[1] * ey[2] * ey[2] + ey[1] * ey[1] * ex[2] * ex[2]
      d == ex[2] * ex[2] * ey[2] * ey[2]
  IN  1600 * n > d

\* the listeners' state as mouseup and mouseout leave it
Released ==
  /\ ~MOUSE_DOWN'
  /\ topCanvas' = "clear"
  /\ UNCHANGED <<program, wave_position, wave_angle, wave_angle_components>>

\* C17, interactive program: a frame that runs with the button down has tick
\* index 1 and steps the initial wave packet, so frames of index 2, 3, ...
\* run with the button up; the button goes up only by mouseup or mouseout;
\* the wave direction changes only between frames, with the button down, to
\* the direction of a cursor more than min_distance from wave_position.
C17_HeldButtonHoldsFirstTick ==
  /\ []((variant = "interactive" /\ InFrame /\ MOUSE_DOWN) =>
          /\ elapsedTime = 1
          /\ Ran("create_texture") => fbo.initialBuffer = InitialWave
          /\ Ran("combine_k") => (fbo.initialBuffer = InitialWave /\ StagewiseRK4))
  /\ []((variant = "interactive" /\ InFrame /\ elapsedTime >= 2) => ~MOUSE_DOWN)
  /\ [][(MOUSE_DOWN /\ ~MOUSE_DOWN') => (pc = 0 /\ Released)]_vars
  /\ [][(wave_angle' # wave_angle \/ wave_angle_components' # wave_angle_components) =>
          /\ pc = 0
          /\ MOUSE_DOWN /\ MOUSE_DOWN'
          /\ wave_position' = wave_position
          /\ \E e \in CursorPixels :
               /\ MoreThanFortiethApart(wave_position, getCursorPosition(e))
               /\ wave_angle' = angle(wave_position, getCursorPosition(e))
               /\ wave_angle_components' = angle_components(wave_angle')]_vars

\* a second frame in a row has run with the button held after the direction
\* was dragged: still tick index 1, still the packet
C17_Witness ==
  /\ variant = "interactive"
  /\ MOUSE_DOWN
  /\ reset = "none"
  /\ wave_angle # Up
  /\ Ran("combine_k")
  /\ elapsedTime = 1
  /\ fbo.initialBuffer = InitialWave
  /\ fbo.kCombined # fbo.initialBuffer

====
